---- MODULE Spec2Model ----
(***************************************************************************)
(* A model of one run of the Senate EFD scraper: the __main__ block of    *)
(* src/src/senate_scraper.py driving a SenateScraper through navigation,  *)
(* consent, search, URL enumeration, per-report extraction, persistence,  *)
(* notification and the release of the browser session, together with     *)
(* EmailClient.send_email of src/src/email_client.py.                      *)
(*                                                                         *)
(* Everything the program reads from outside (what the browser driver      *)
(* returns, whether the file system and the SMTP server cooperate) is an   *)
(* input chosen with \E from a small set at the step that reads it.        *)
(***************************************************************************)
EXTENDS Integers, Sequences, FiniteSets, TLC

(***************************************************************************)
(* Bounds of the model.                                                    *)
(***************************************************************************)
\* anchors in the rendered results table body
MaxAnchors == 2

(***************************************************************************)
(* Program constants.                                                      *)
(***************************************************************************)
\* `if len(cells) >= 9`
RequiredCells == 9

\* TIMEOUT = 10, the limit of every WebDriverWait
TIMEOUT == 10

\* time.sleep(3) after the consent click
SettleSeconds == 3

\* Python's None, for string-valued and for record-valued optionals
None == "None"
NoRecord == [none |-> TRUE]

\* the distinct report URLs the portal may render
URLs == {"u1", "u2"}
\* link.get_attribute("href"): a URL, or None for an anchor without a target
Hrefs == URLs \cup {None}

\* senate_reports_<today>.json
DefaultFilename == "senate_reports_today.json"

SubjectSuccess == "Success"
SubjectNoReports == "No Reports"
SubjectError == "Error - Unexpected Exception"

RECURSIVE SeqsUpTo(_, _)
SeqsUpTo(S, n) ==
    IF n = 0 THEN {<<>>}
    ELSE LET shorter == SeqsUpTo(S, n - 1)
         IN  shorter \cup {Append(s, x) : s \in {t \in shorter : Len(t) = n - 1}, x \in S}

(***************************************************************************)
(* The rendered results page, as the two driver queries of the program     *)
(* see it: find_elements(CLASS_NAME, "dataTables_empty") over the whole    *)
(* document, and the anchors of the first tbody.                           *)
(***************************************************************************)
NoPage == [loaded |-> FALSE, marker |-> FALSE, tbody |-> FALSE, anchors |-> <<>>]

ResultPages ==
    {[loaded |-> TRUE, marker |-> m, tbody |-> TRUE, anchors |-> a] :
        m \in BOOLEAN, a \in SeqsUpTo(Hrefs, MaxAnchors)}
    \cup {[loaded |-> TRUE, marker |-> m, tbody |-> FALSE, anchors |-> <<>>] : m \in BOOLEAN}

(***************************************************************************)
(* A detail page: driver.get(url) raises, or the wait for table.table      *)
(* times out, or the table is there with its tr rows; a row is the number  *)
(* of td cells it holds (the first row is the header).                     *)
(***************************************************************************)
GoodRow == RequiredCells
ShortRow == RequiredCells - 1

DetailPages ==
    {[load |-> "error", trs |-> <<>>], [load |-> "timeout", trs |-> <<>>]}
    \cup {[load |-> "ok", trs |-> t] :
            t \in {<<>>, <<GoodRow>>, <<GoodRow, GoodRow>>, <<GoodRow, ShortRow>>,
                   <<GoodRow, ShortRow, GoodRow>>}}

VARIABLES
    pc,             \* position in the __main__ block
    consent,        \* <<>>, or what accept_agreement met and did
    email_client,   \* TRUE when an EmailClient was configured
    page,           \* the results page the driver holds after the search
    report_urls,    \* the result of extract_report_urls
    idx,            \* the 1-based position of the loop of process_all_reports
    all_reports,    \* the records collected so far
    report_file,    \* the result of save_reports_to_json
    files,          \* the text of the output file, <<>> while there is none
    attempted,      \* the calls of process_single_report, in order: the url
                    \* and how the detail page answered
    log,            \* the operations performed, in order
    notifications,  \* the calls of send_notification, in order
    quits,          \* the calls of driver.quit()
    exc,            \* TRUE while an exception propagates
    failed,         \* the stage that returned False, or None
    exit_code       \* the process exit code, -1 while running

vars == <<pc, consent, email_client, page, report_urls, idx, all_reports, report_file, files,
          attempted, log, notifications, quits, exc, failed, exit_code>>

Stages == {"navigate_to_search", "accept_agreement", "fill_search_form",
           "extract_report_urls", "process_single_report"}

Init ==
    /\ pc = "navigate"
    /\ consent = <<>>
    /\ email_client \in BOOLEAN
    /\ page = NoPage
    /\ report_urls = <<>>
    /\ idx = 1
    /\ all_reports = <<>>
    /\ report_file = None
    /\ files = <<>>
    /\ attempted = <<>>
    /\ log = <<>>
    /\ notifications = <<>>
    /\ quits = 0
    /\ exc = FALSE
    /\ failed = None
    /\ exit_code = -1

(***************************************************************************)
(* Pure parts of the program.                                              *)
(***************************************************************************)

\* check_empty_results: True when an element of class dataTables_empty is found
check_empty_results(pg) == pg.marker

\* an enumeration that keeps the anchors without a target as well
extract_report_urls_all(pg) == IF ~pg.tbody THEN <<>> ELSE pg.anchors

\* extract_report_urls: the hrefs of the anchors of tbody that have one, in
\* document order; [] when tbody is not found (the exception is swallowed)
extract_report_urls(pg) ==
    IF ~pg.tbody THEN <<>>
    ELSE SelectSeq(pg.anchors, LAMBDA h : h # None)

\* the rows of a detail table after the header: table.find_elements("tr")[1:]
DataRows(trs) == IF Len(trs) = 0 THEN <<>> ELSE Tail(trs)

\* a column check that takes any row with cells
WellFormed_any(cells) == cells > 0

\* `if len(cells) >= 9`
WellFormed(cells) == cells >= RequiredCells

\* the transactions of a table: one per well-formed data row, in row order;
\* a transaction keeps the position of its row in the table
RECURSIVE Transactions(_, _)
Transactions(rows, pos) ==
    IF rows = <<>> THEN <<>>
    ELSE LET rest == Transactions(Tail(rows), pos + 1)
         IN  IF WellFormed(Head(rows)) THEN <<[row |-> pos]>> \o rest ELSE rest

\* process_single_report: a record, or None on a timeout or any exception
process_single_report(url, dp, now) ==
    IF dp.load # "ok" THEN NoRecord
    ELSE [url |-> url, timestamp |-> now, transactions |-> Transactions(DataRows(dp.trs), 2)]

\* a truth test that takes a record without transactions for nothing
Truthy_transactions(report_data) ==
    report_data # NoRecord /\ report_data.transactions # <<>>

\* `if report_data:` None is falsy, a dict with keys is truthy
Truthy(report_data) == report_data # NoRecord

\* a loop body that keeps whatever process_single_report returned
AppendReport_always(reports, report_data) == Append(reports, report_data)

\* the body of the loop of process_all_reports
AppendReport(reports, report_data) ==
    IF Truthy(report_data) THEN Append(reports, report_data) ELSE reports

(***************************************************************************)
(* json.dump and json.load on the records of the program.  The text of a   *)
(* file is a sequence of tokens: punctuation, or a string (a key or a      *)
(* value).                                                                 *)
(***************************************************************************)
P(c) == [k |-> "p", v |-> c]
S(v) == [k |-> "s", v |-> v]

\* one transaction object
EncTransaction(t) == <<P("{"), S("row"), P(":"), S(t.row), P("}")>>

RECURSIVE EncTransactions(_)
EncTransactions(txs) ==
    IF txs = <<>> THEN <<>>
    ELSE EncTransaction(Head(txs))
         \o (IF Tail(txs) = <<>> THEN <<>> ELSE <<P(",")>> \o EncTransactions(Tail(txs)))

\* one report object: url, timestamp, transactions, in insertion order
EncReport(r) ==
    <<P("{"), S("url"), P(":"), S(r.url), P(","),
      S("timestamp"), P(":"), S(r.timestamp), P(","),
      S("transactions"), P(":"), P("[")>> \o EncTransactions(r.transactions)
    \o <<P("]"), P("}")>>

RECURSIVE EncReports(_)
EncReports(reports) ==
    IF reports = <<>> THEN <<>>
    ELSE EncReport(Head(reports))
         \o (IF Tail(reports) = <<>> THEN <<>> ELSE <<P(",")>> \o EncReports(Tail(reports)))

\* a dump that writes the last report only
json_dump_last(reports) ==
    <<P("[")>> \o EncReports(SubSeq(reports, Len(reports), Len(reports))) \o <<P("]")>>

\* json.dump(reports, f, indent=2, ensure_ascii=False)
json_dump(reports) == <<P("[")>> \o EncReports(reports) \o <<P("]")>>

\* json.load: a string gives its value, an array a sequence, an object a
\* function of its keys; each parser returns the value and the text left
RECURSIVE ParseValue(_), ParseElements(_, _), ParseMembers(_, _)
ParseValue(toks) ==
    LET h == Head(toks)
        t == Tail(toks)
    IN  IF h.k = "s" THEN [val |-> h.v, rest |-> t]
        ELSE IF h.v = "["
             THEN IF Head(t).k = "p" /\ Head(t).v = "]"
                  THEN [val |-> <<>>, rest |-> Tail(t)]
                  ELSE ParseElements(t, <<>>)
             ELSE ParseMembers(t, <<>>)

ParseElements(toks, acc) ==
    LET e == ParseValue(toks)
        sep == Head(e.rest)
    IN  IF sep.v = ","
        THEN ParseElements(Tail(e.rest), Append(acc, e.val))
        ELSE [val |-> Append(acc, e.val), rest |-> Tail(e.rest)]

ParseMembers(toks, acc) ==
    LET key == Head(toks).v
        m == ParseValue(Tail(Tail(toks)))
        obj == acc @@ (key :> m.val)
        sep == Head(m.rest)
    IN  IF sep.v = ","
        THEN ParseMembers(Tail(m.rest), obj)
        ELSE [val |-> obj, rest |-> Tail(m.rest)]

json_load(text) == ParseValue(text).val

\* save_reports_to_json: open(filename, "w") and json.dump inside the try;
\* the filename when both worked, None otherwise.  An error while dumping
\* leaves the opened file with the text written so far (here: its first
\* token); an error in open leaves the file as it was
FileOutcomes == {"ok", "open_error", "write_error"}

WriteReports(reports, old, outcome) ==
    CASE outcome = "ok" -> [path |-> DefaultFilename, content |-> json_dump(reports)]
      [] outcome = "open_error" -> [path |-> None, content |-> old]
      [] OTHER -> [path |-> None, content |-> SubSeq(json_dump(reports), 1, 1)]

\* EmailClient.send_email: "sent" (True), "failed" (False) or "raised"
send_email(attachments, readable, smtp) ==
    IF attachments # <<>> /\ ~readable THEN [result |-> "failed", connected |-> FALSE]
    ELSE CASE smtp = "ok"         -> [result |-> "sent", connected |-> TRUE]
           [] smtp = "smtp_error" -> [result |-> "failed", connected |-> TRUE]
           [] OTHER               -> [result |-> "raised", connected |-> TRUE]

SmtpOutcomes == {"ok", "smtp_error", "os_error"}

\* send_notification: calls send_email only when an email client is configured;
\* the record of a call keeps what the file system and the SMTP server answered
send_notification(client, subject, attachments, readable, smtp) ==
    IF client
    THEN LET r == send_email(attachments, readable, smtp)
         IN  [subject |-> subject, attachments |-> attachments,
              sent |-> TRUE, result |-> r.result, connected |-> r.connected,
              readable |-> readable, smtp |-> smtp]
    ELSE [subject |-> subject, attachments |-> attachments,
          sent |-> FALSE, result |-> "none", connected |-> FALSE,
          readable |-> TRUE, smtp |-> "none"]

(***************************************************************************)
(* What the driver answers to accept_agreement: the wait for the checkbox  *)
(* ends with the element, a TimeoutException or another error; then        *)
(* is_selected() answers or raises; then click() works or raises.          *)
(***************************************************************************)
ConsentDrivers ==
    {[wait |-> w, selected |-> "-", click |-> "-"] : w \in {"timeout", "error"}}
    \cup {[wait |-> "clickable", selected |-> x, click |-> "-"] : x \in {"yes", "error"}}
    \cup {[wait |-> "clickable", selected |-> "no", click |-> c] : c \in {"ok", "error"}}

\* a consent stage that clicks whatever is_selected() says
AcceptAgreementBody_always_click(d) ==
    IF d.wait # "clickable" \/ d.selected = "error"
    THEN [ret |-> FALSE, waited |-> TIMEOUT, clicks |-> 0, sleeps |-> <<>>]
    ELSE [ret |-> TRUE, waited |-> TIMEOUT, clicks |-> 1, sleeps |-> <<SettleSeconds>>]

\* accept_agreement: the result, the limit of the wait, the clicks made
\* and the pauses taken
AcceptAgreementBody(d) ==
    IF d.wait # "clickable" \/ d.selected = "error"
    THEN [ret |-> FALSE, waited |-> TIMEOUT, clicks |-> 0, sleeps |-> <<>>]
    ELSE IF d.selected = "yes"
    THEN [ret |-> TRUE, waited |-> TIMEOUT, clicks |-> 0, sleeps |-> <<SettleSeconds>>]
    ELSE IF d.click = "ok"
    THEN [ret |-> TRUE, waited |-> TIMEOUT, clicks |-> 1, sleeps |-> <<SettleSeconds>>]
    ELSE [ret |-> FALSE, waited |-> TIMEOUT, clicks |-> 1, sleeps |-> <<>>]

\* a guard that saves whatever was collected, even nothing
HasReports_always(reports) == TRUE

\* `if all_reports:` a non-empty list is truthy
HasReports(reports) == Len(reports) > 0

\* a loop that walks the urls from the last to the first
UrlAt_reversed(urls, i) == urls[Len(urls) + 1 - i]

\* `for i, url in enumerate(report_urls, 1):` the url of the i-th iteration
UrlAt(urls, i) == urls[i]

\* a run body that goes on whatever a stage returned
AfterStage_ignored(ok, next) == next

\* a run body that waits for ever on a stage that returned False
AfterStage_hang(ok, next) == IF ok THEN next ELSE "waiting"

\* `if scraper.navigate_to_search() and scraper.accept_agreement():` and
\* `if scraper.fill_search_form():` a stage that returns False skips the rest
AfterStage(ok, next) == IF ok THEN next ELSE "ctx_exit"

\* a cleanup that finds no driver attribute and releases nothing
cleanup_skipped(q) == q

\* cleanup(): driver.quit() once
cleanup(q) == q + 1

(***************************************************************************)
(* The steps of the __main__ block.                                        *)
(***************************************************************************)

navigate_to_search ==
    /\ pc = "navigate"
    /\ \E ok \in BOOLEAN :
        /\ pc' = AfterStage(ok, "accept")
        /\ failed' = IF ok THEN failed ELSE "navigate_to_search"
    /\ log' = Append(log, "navigate_to_search")
    /\ UNCHANGED <<consent, email_client, page, report_urls, idx, all_reports, report_file, files,
                   attempted, notifications, quits, exc, exit_code>>

accept_agreement ==
    /\ pc = "accept"
    /\ \E d \in ConsentDrivers :
        LET r == AcceptAgreementBody(d)
        IN  /\ consent' = <<[driver |-> d, did |-> r]>>
            /\ pc' = AfterStage(r.ret, "fill")
            /\ failed' = IF r.ret THEN failed ELSE "accept_agreement"
            /\ log' = log \o <<"accept_agreement">>
                          \o (IF r.clicks > 0 THEN <<"click">> ELSE <<>>)
                          \o (IF r.sleeps # <<>> THEN <<"sleep">> ELSE <<>>)
    /\ UNCHANGED <<email_client, page, report_urls, idx, all_reports, report_file, files,
                   attempted, notifications, quits, exc, exit_code>>

fill_search_form ==
    /\ pc = "fill"
    /\ \E outcome \in {"ok", "timeout", "error"} :
        /\ pc' = AfterStage(outcome = "ok", "extract_urls")
        /\ failed' = IF outcome = "ok" THEN failed ELSE "fill_search_form"
        /\ log' = log \o <<"fill_search_form">>
                      \o (IF outcome = "ok" THEN <<"sleep">> ELSE <<>>)
        /\ IF outcome = "ok"
           THEN page' \in ResultPages
           ELSE page' = page
    /\ UNCHANGED <<consent, email_client, report_urls, idx, all_reports, report_file, files,
                   attempted, notifications, quits, exc, exit_code>>

\* report_urls = scraper.extract_report_urls();
\* process_all_reports(report_urls) if report_urls else []
enumerate_urls ==
    /\ pc = "extract_urls"
    /\ report_urls' = extract_report_urls(page)
    /\ log' = Append(log, "extract_report_urls")
    /\ pc' = IF Len(report_urls') > 0 THEN "process" ELSE "classify"
    /\ UNCHANGED <<consent, email_client, page, idx, all_reports, report_file, files,
                   attempted, notifications, quits, exc, failed, exit_code>>

\* one iteration of the loop of process_all_reports
process_all_reports ==
    /\ pc = "process"
    /\ idx <= Len(report_urls)
    /\ \E dp \in DetailPages :
        /\ all_reports' = AppendReport(all_reports,
                                       process_single_report(UrlAt(report_urls, idx), dp, idx))
        /\ attempted' = Append(attempted, [url |-> UrlAt(report_urls, idx),
                                           load |-> dp.load, trs |-> dp.trs])
    /\ log' = Append(log, "process_single_report")
    /\ idx' = idx + 1
    /\ pc' = IF idx' > Len(report_urls) THEN "classify" ELSE "process"
    /\ UNCHANGED <<consent, email_client, page, report_urls, report_file, files,
                   notifications, quits, exc, failed, exit_code>>

\* `if all_reports:` save_reports_to_json, then the success notification
\* `if report_file:`
save_reports_to_json ==
    /\ pc = "classify"
    /\ HasReports(all_reports)
    /\ \E outcome \in FileOutcomes :
        LET w == WriteReports(all_reports, files, outcome)
        IN  /\ report_file' = w.path
            /\ files' = w.content
            /\ pc' = IF w.path # None THEN "notify_success" ELSE "ctx_exit"
    /\ log' = Append(log, "save_reports_to_json")
    /\ UNCHANGED <<consent, email_client, page, report_urls, idx, all_reports,
                   attempted, notifications, quits, exc, failed, exit_code>>

notify_success ==
    /\ pc = "notify_success"
    /\ \E readable \in BOOLEAN, smtp \in SmtpOutcomes :
        LET n == send_notification(email_client, SubjectSuccess, <<report_file>>,
                                   readable, smtp)
        IN  /\ notifications' = Append(notifications, n)
            /\ exc' = (n.result = "raised")
    /\ log' = Append(log, "send_notification")
    /\ pc' = "ctx_exit"
    /\ UNCHANGED <<consent, email_client, page, report_urls, idx, all_reports, report_file, files,
                   attempted, quits, failed, exit_code>>

\* the else branch of `if all_reports:`
notify_no_reports ==
    /\ pc = "classify"
    /\ ~HasReports(all_reports)
    /\ \E smtp \in SmtpOutcomes :
        LET n == send_notification(email_client, SubjectNoReports, <<>>, TRUE, smtp)
        IN  /\ notifications' = Append(notifications, n)
            /\ exc' = (n.result = "raised")
    /\ log' = Append(log, "send_notification")
    /\ pc' = "ctx_exit"
    /\ UNCHANGED <<consent, email_client, page, report_urls, idx, all_reports, report_file, files,
                   attempted, quits, failed, exit_code>>

\* __exit__: cleanup(), then the exception (if any) goes on to the handler;
\* driver.quit() may raise itself
\* a program that starts the run over when the `with` block ends normally
AfterExit_rerun(raised) == IF raised THEN "handler" ELSE "navigate"

\* where control goes when the `with` block is left: to the `except` clause
\* with an exception in flight, to the end of the program otherwise
AfterExit(raised) == IF raised THEN "handler" ELSE "done"

ctx_exit ==
    /\ pc = "ctx_exit"
    /\ quits' = cleanup(quits)
    /\ log' = Append(log, "quit")
    /\ \E quit_raises \in BOOLEAN :
        /\ exc' = (exc \/ quit_raises)
        /\ pc' = AfterExit(exc')
        /\ exit_code' = IF exc' THEN exit_code ELSE 0
    /\ UNCHANGED <<consent, email_client, page, report_urls, idx, all_reports, report_file, files,
                   attempted, notifications, failed>>

\* `except Exception as e:` one more notification, then exit(1); when the
\* notification raises too, the process dies of it, with exit code 1 as well
handler ==
    /\ pc = "handler"
    /\ \E smtp \in SmtpOutcomes :
        LET n == send_notification(email_client, SubjectError, <<>>, TRUE, smtp)
        IN  notifications' = Append(notifications, n)
    /\ log' = Append(log, "send_notification")
    /\ exit_code' = 1
    /\ pc' = "done"
    /\ UNCHANGED <<consent, email_client, page, report_urls, idx, all_reports, report_file, files,
                   attempted, quits, exc, failed>>

Next ==
    \/ navigate_to_search
    \/ accept_agreement
    \/ fill_search_form
    \/ enumerate_urls
    \/ process_all_reports
    \/ save_reports_to_json
    \/ notify_success
    \/ notify_no_reports
    \/ ctx_exit
    \/ handler

Spec == Init /\ [][Next]_vars

\* the interpreter runs the single thread of the program for as long as it
\* has a step to take
FairSpec == Spec /\ WF_vars(Next)

(***************************************************************************)
(* What a finished run shows.                                              *)
(***************************************************************************)
Done == pc = "done"

\* a notification with this subject was attempted
Notified(subject) == \E n \in DOMAIN notifications : notifications[n].subject = subject

UrlsOf(seq) == [j \in DOMAIN seq |-> seq[j].url]

Succeeded == SelectSeq(attempted, LAMBDA a : a.load = "ok")
Failures == Len(attempted) - Len(Succeeded)

\* the loop of process_all_reports is over (or was never needed)
LoopOver == pc \in {"classify", "notify_success", "ctx_exit", "handler", "done"}

\* the stages performed and the persistence calls, in order
StageLog == SelectSeq(log, LAMBDA e : e \in Stages \cup {"save_reports_to_json"})

(***************************************************************************)
(* C1.  On every exit path the browser session is released (driver.quit)   *)
(* exactly once: never twice at any point, and once when the with block    *)
(* has been left (the handler runs, or the run is over).                    *)
(***************************************************************************)
C1_ReleasedExactlyOnce ==
    /\ quits <= 1
    /\ pc \in {"handler", "done"} => quits = 1

\* a run that extracted a record and then left the with block on an exception
C1_Witness ==
    /\ Done
    /\ exc
    /\ quits = 1
    /\ Len(all_reports) > 0

(***************************************************************************)
(* C2.  Every run that reaches a terminal state has made exactly one       *)
(* notification attempt, whatever the terminal state is.                   *)
(***************************************************************************)
C2_OneNotificationPerRun == Done => Len(notifications) = 1

(***************************************************************************)
(* C3.  When the empty-check is true of the results page (the no-rows      *)
(* marker is present), no reference is passed to extraction, the run is    *)
(* notified as "No Reports" and nothing is persisted.                      *)
(***************************************************************************)
C3_EmptyCheckMeansNoResults ==
    (Done /\ page.loaded /\ check_empty_results(page)) =>
        /\ attempted = <<>>
        /\ Notified(SubjectNoReports)
        /\ \A e \in DOMAIN log : log[e] # "save_reports_to_json"

(***************************************************************************)
(* C4.  Of the M discovered references every one is attempted, in order,   *)
(* whatever failed before it, and the aggregated result holds exactly one  *)
(* record per reference whose extraction succeeded: M - k records when k   *)
(* extractions failed.                                                     *)
(***************************************************************************)
C4_AllAttemptedAndCounted ==
    /\ Len(all_reports) = Len(attempted) - Failures
    /\ UrlsOf(all_reports) = UrlsOf(Succeeded)
    /\ pc = "process" => UrlsOf(attempted) = SubSeq(report_urls, 1, idx - 1)
    /\ LoopOver => /\ UrlsOf(attempted) = report_urls
                   /\ Len(all_reports) = Len(report_urls) - Failures

\* two references, the first failed, the second was still extracted
C4_Witness ==
    /\ pc = "classify"
    /\ Len(report_urls) = 2
    /\ attempted[1].load # "ok"
    /\ attempted[2].load = "ok"
    /\ Len(all_reports) = 1

(***************************************************************************)
(* C5.  A run with M > 0 discovered references is reported SUCCESS only    *)
(* when zero extractions failed: a run with at least one failed            *)
(* extraction is never reported as SUCCESS.                                *)
(***************************************************************************)
C5_SuccessOnlyWithoutFailures ==
    (Done /\ Len(report_urls) > 0 /\ Failures > 0) => ~Notified(SubjectSuccess)

(***************************************************************************)
(* C6.  A run that ends with the "No Reports" notification attempted no    *)
(* reference at all.                                                       *)
(***************************************************************************)
C6_NoResultsMeansNothingAttempted ==
    (Done /\ Notified(SubjectNoReports)) => attempted = <<>>

(***************************************************************************)
(* C7.  Each report reference is attempted at most once per run: no URL    *)
(* is handed to extraction twice.                                          *)
(***************************************************************************)
C7_AttemptedAtMostOnce ==
    \A j, k \in DOMAIN attempted : j # k => attempted[j].url # attempted[k].url

(***************************************************************************)
(* C8.  The exit code is non-zero when a stage before extraction failed,   *)
(* when discovery found nothing although the page shows no no-rows marker, *)
(* or when references were attempted and none succeeded; it is 0           *)
(* otherwise.                                                              *)
(***************************************************************************)
Fatal ==
    \/ failed # None
    \/ page.loaded /\ ~check_empty_results(page) /\ report_urls = <<>>
    \/ attempted # <<>> /\ all_reports = <<>>

C8_ExitCode == Done => (exit_code # 0 <=> Fatal)

(***************************************************************************)
(* C9.  When the empty-check is false (no no-rows marker) and enumeration  *)
(* finds no reference, or fails, the run is never notified as a benign     *)
(* "No Reports" run.                                                       *)
(***************************************************************************)
C9_InconsistentNotBenign ==
    (Done /\ page.loaded /\ ~check_empty_results(page) /\ report_urls = <<>>)
        => ~Notified(SubjectNoReports)

(***************************************************************************)
(* C10. When navigation, consent or search fails, the run stops there: no  *)
(* later stage runs, no reference is enumerated or extracted and nothing   *)
(* is persisted.                                                           *)
(***************************************************************************)
StagesThrough(stage) ==
    CASE stage = "navigate_to_search" -> <<"navigate_to_search">>
      [] stage = "accept_agreement"   -> <<"navigate_to_search", "accept_agreement">>
      [] OTHER -> <<"navigate_to_search", "accept_agreement", "fill_search_form">>

C10_StageFailureAborts ==
    failed # None =>
        /\ StageLog = StagesThrough(failed)
        /\ ~page.loaded
        /\ report_urls = <<>>
        /\ attempted = <<>>
        /\ all_reports = <<>>
        /\ report_file = None
        /\ files = <<>>

\* a finished run whose consent stage failed
C10_Witness ==
    /\ Done
    /\ failed = "accept_agreement"
    /\ quits = 1

(***************************************************************************)
(* C11. A failure of the notifier (SMTP error, connection failure,         *)
(* unreadable attachment) is never propagated as a run failure: no call    *)
(* of the notifier raises, and no exception is on its way out of the run   *)
(* body when the with block is left.                                       *)
(***************************************************************************)
C11_NotifierFailureSwallowed ==
    /\ \A n \in DOMAIN notifications : notifications[n].result # "raised"
    /\ pc = "ctx_exit" => ~exc

(***************************************************************************)
(* C16. send_email returns a boolean and never raises for a delivery       *)
(* problem: True only when every attachment was read and the SMTP exchange *)
(* completed, False on an SMTP error, and False without opening an SMTP    *)
(* connection when an attachment cannot be read.                           *)
(***************************************************************************)
C16_SendEmailReturnsBoolean ==
    \A n \in DOMAIN notifications :
        LET c == notifications[n]
            unreadable == c.attachments # <<>> /\ ~c.readable
        IN  c.sent =>
                /\ c.result \in {"sent", "failed"}
                /\ c.result = "sent" => (~unreadable /\ c.smtp = "ok")
                /\ (c.smtp = "smtp_error" /\ ~unreadable) => c.result = "failed"
                /\ unreadable => (c.result = "failed" /\ ~c.connected)

(***************************************************************************)
(* C17. In every run that enumerates references the empty-check is         *)
(* performed after the search stage and before enumeration: enumeration    *)
(* is never performed without a preceding empty-check.                     *)
(***************************************************************************)
C17_EmptyCheckBeforeEnumeration ==
    \A e \in DOMAIN log :
        log[e] = "extract_report_urls" =>
            \E c \in 1..(e - 1) :
                /\ log[c] = "check_empty_results"
                /\ \E f \in 1..(c - 1) : log[f] = "fill_search_form"

C13_RoundTrip ==
    report_file # None =>
        /\ report_file = DefaultFilename
        /\ json_load(files) = all_reports

\* two records were persisted, the first of them with a transaction
C13_Witness ==
    /\ report_file = DefaultFilename
    /\ Len(all_reports) = 2
    /\ all_reports[1].transactions # <<>>
    /\ json_load(files) = all_reports

(***************************************************************************)
(* C14. Persistence is invoked in a run if and only if the aggregated      *)
(* result holds at least one record: never on a run without results, a     *)
(* fatal run or a run where every extraction failed, and exactly once      *)
(* when at least one extraction succeeded.                                 *)
(***************************************************************************)
Saves == Len(SelectSeq(log, LAMBDA e : e = "save_reports_to_json"))

C14_PersistIffRecords ==
    /\ Saves <= 1
    /\ Saves = 1 => (Len(Succeeded) > 0 /\ failed = None)
    /\ (pc \in {"notify_success", "ctx_exit", "handler", "done"} /\ Len(Succeeded) > 0)
            => Saves = 1

\* a finished run with one failed and one successful extraction, persisted once
C14_Witness ==
    /\ Done
    /\ Failures = 1
    /\ Len(Succeeded) = 1
    /\ Saves = 1

(***************************************************************************)
(* C15. When persistence of a run's records fails, no success              *)
(* notification is sent and the failure is surfaced in the run's final     *)
(* outcome (a notification or the exit status), not dropped silently.      *)
(***************************************************************************)
SaveFailed == Saves = 1 /\ report_file = None

C15_SaveFailureSurfaced ==
    (Done /\ SaveFailed) =>
        /\ ~Notified(SubjectSuccess)
        /\ (notifications # <<>> \/ exit_code # 0)

(***************************************************************************)
(* C18. Stages run in the fixed order navigation, consent, search,         *)
(* result-set discovery, extraction, each only after its predecessor       *)
(* succeeded; references are extracted in discovery order, one after the   *)
(* other.                                                                  *)
(***************************************************************************)
StageOrder == <<"navigate_to_search", "accept_agreement", "fill_search_form",
                "extract_report_urls">>

StagesOnly == SelectSeq(log, LAMBDA e : e \in Stages)

C18_FixedOrder ==
    /\ \A s \in DOMAIN StagesOnly :
        StagesOnly[s] = IF s <= Len(StageOrder) THEN StageOrder[s]
                        ELSE "process_single_report"
    /\ failed # None => StagesOnly[Len(StagesOnly)] = failed
    /\ Len(StagesOnly) > Len(StageOrder) => Len(report_urls) > 0
    /\ Len(attempted) = Len(SelectSeq(log, LAMBDA e : e = "process_single_report"))
    /\ Len(attempted) <= Len(report_urls)
    /\ UrlsOf(attempted) = SubSeq(report_urls, 1, Len(attempted))

\* two different references, extracted in the order of their discovery
C18_Witness ==
    /\ report_urls = <<"u2", "u1">>
    /\ UrlsOf(attempted) = <<"u2", "u1">>
    /\ StagesOnly = StageOrder \o <<"process_single_report", "process_single_report">>

(***************************************************************************)
(* C19. The consent stage activates the consent control exactly once when  *)
(* it is not already selected and not at all when it is, then pauses once  *)
(* for 3 and reports success; when the control never becomes clickable     *)
(* within the timeout of 10 it reports failure without clicking; the       *)
(* stage always ends with a result, True or False.                         *)
(***************************************************************************)
C19_ConsentStage ==
    \A c \in DOMAIN consent :
        LET d == consent[c].driver
            r == consent[c].did
        IN  /\ r.ret \in BOOLEAN
            /\ r.ret <=> failed # "accept_agreement"
            /\ (d.wait = "clickable" /\ d.selected = "no") => r.clicks = 1
            /\ (d.wait = "clickable" /\ d.selected = "yes") => r.clicks = 0
            /\ (d.wait = "clickable" /\ (d.selected = "yes" \/ d.click = "ok"))
                    => (r.sleeps = <<3>> /\ r.ret)
            /\ d.wait = "timeout"
                    => (~r.ret /\ r.clicks = 0 /\ r.sleeps = <<>> /\ r.waited = 10)

\* the control was already selected: no click, one pause, success
C19_Witness ==
    /\ consent # <<>>
    /\ consent[1].driver.selected = "yes"
    /\ consent[1].did.clicks = 0
    /\ consent[1].did.sleeps = <<3>>
    /\ pc = "fill"

(***************************************************************************)
(* C20. Enumeration returns the target URLs of the anchors of the results  *)
(* table body in document order, omitting the anchors without a target:    *)
(* one entry per anchor with a URL.                                        *)
(***************************************************************************)
Targets == {a \in DOMAIN page.anchors : page.anchors[a] # None}

\* the position of the k-th anchor with a target
KthTarget(k) == CHOOSE a \in Targets : Cardinality({b \in Targets : b <= a}) = k

C20_EnumerationInDocumentOrder ==
    (page.loaded /\ pc # "extract_urls") =>
        /\ Len(report_urls) = Cardinality(Targets)
        /\ \A k \in DOMAIN report_urls : report_urls[k] = page.anchors[KthTarget(k)]

\* an anchor without a target before one with a target
C20_Witness ==
    /\ pc = "process"
    /\ page.anchors = <<None, "u1">>
    /\ report_urls = <<"u1">>

(***************************************************************************)
(* C21. Every notification of a run in which a file was persisted carries  *)
(* exactly that file's path as its attachment list; the notifications of   *)
(* a run without a persisted file carry no attachment.                     *)
(***************************************************************************)
C21_AttachmentIsPersistedFile ==
    \A n \in DOMAIN notifications :
        notifications[n].sent =>
          notifications[n].attachments =
            IF report_file # None THEN <<report_file>> ELSE <<>>

(***************************************************************************)
(* C22. A reference whose detail table is present but yields no            *)
(* well-formed row still produces a record, with an empty transaction      *)
(* sequence, that is kept in the aggregated result and counted as a        *)
(* success, not as a failed extraction.                                    *)
(***************************************************************************)
NoWellFormedRow(trs) == \A r \in 2..Len(trs) : trs[r] < RequiredCells

C22_EmptyRecordKept ==
    /\ Len(all_reports) = Len(Succeeded)
    /\ \A k \in DOMAIN Succeeded :
        NoWellFormedRow(Succeeded[k].trs) =>
            /\ all_reports[k].url = Succeeded[k].url
            /\ all_reports[k].transactions = <<>>

\* a run whose only record has no transaction, persisted and notified as a
\* success
C22_Witness ==
    /\ Done
    /\ Len(attempted) = 1
    /\ Len(all_reports) = 1
    /\ Succeeded[1].trs = <<GoodRow, ShortRow>>
    /\ all_reports[1].transactions = <<>>
    /\ report_file = DefaultFilename
    /\ Notified(SubjectSuccess)

(***************************************************************************)
(* C23. Every run terminates: whatever the discovered references and the   *)
(* outcomes of the stages, the run eventually reaches a terminal state     *)
(* with the session released.                                              *)
(***************************************************************************)
C23_Terminates == <>(Done /\ quits = 1)

\* a finished run whose two extractions ended in a timeout and in a driver
\* error
C23_Witness ==
    /\ Done
    /\ quits = 1
    /\ Len(attempted) = 2
    /\ attempted[1].load = "timeout"
    /\ attempted[2].load = "error"

(***************************************************************************)
(* C24. No browser-driver operation is performed after the session has     *)
(* been released: every stage, click and extraction of a run precedes the  *)
(* release.                                                                *)
(***************************************************************************)
DriverOps == Stages \cup {"click"}

C24_NoDriverUseAfterRelease ==
    /\ \A i \in DOMAIN log : \A j \in DOMAIN log :
        (log[i] = "quit" /\ j > i) => log[j] \notin DriverOps
    /\ quits > 0 => pc \in {"handler", "done"}

\* a run that extracted from a reference, released the session and then went
\* through the error handler
C24_Witness ==
    /\ Done
    /\ Len(attempted) > 0
    /\ Len(log) > 2
    /\ log[Len(log) - 1] = "quit"
    /\ log[Len(log)] = "send_notification"

(***************************************************************************)
(* C25. At most one notification attempt is made per run, also when the    *)
(* notifier call itself raises, and without a notifier no send is made.    *)
(***************************************************************************)
WasAttempted(n) == n.sent

====
